---- MODULE Spec2Model ----
(***************************************************************************)
(* A model of the DOM Promise of dom/promise/Promise.cpp: the settlement   *)
(* state machine (MaybeResolveInternal .. RunResolveTask), callback        *)
(* registration (Then, Catch, AppendCallbacks), the two runnables          *)
(* (PromiseTask, PromiseResolverTask and their worker twins), and the      *)
(* unhandled-rejection check made at teardown (MaybeReportRejected).       *)
(*                                                                         *)
(* Every event-loop turn (a client call, or one runnable taken from the    *)
(* head of a thread's queue) is one action and runs to completion: the     *)
(* synchronous recursion RunTask -> Call -> ResolveInternal ->             *)
(* RunResolveTask -> RunTask happens inside the action, as in the code.    *)
(***************************************************************************)
EXTENDS Integers, Sequences, FiniteSets, TLC

\* ------------------------------------------------------------- bounds
\* The most client calls of each kind a run makes: Promises created by the
\* constructor or a static helper, settlement calls on an existing Promise,
\* then/catch calls, and references dropped.
MaxCreate == 2
MaxSettle == 2
MaxThen == 3
MaxDrop == 2

Contexts == {"main", "worker"}

\* ------------------------------------------------------------- values
\* JS::Value, as far as the code looks at it: undefined, a primitive, an
\* object that is an Error (js::ErrorFromException finds a report) and an
\* object that unwraps to a Promise (UNWRAP_OBJECT succeeds).
Undef == [k |-> "undef", n |-> 0]
IntV(i) == [k |-> "int", n |-> i]
NaNV == [k |-> "nan", n |-> 0]
ErrV == [k |-> "error", n |-> 0]
PromiseV(p) == [k |-> "promise", n |-> p]

isObject(v) == v.k \in {"error", "promise"}
isUndefined(v) == v.k = "undef"
IsPromiseObject(v) == v.k = "promise"
ErrorFromException(v) == v.k = "error"

\* ------------------------------------------------------------- state
VARIABLES
  pr,         \* the Promise objects made so far, in order of creation
  queue,      \* per thread, the runnables dispatched to it, FIFO
  log,        \* every PromiseCallback::Call made, in order
  regs,       \* every AppendCallbacks call made, in order
  nextDrain,  \* number of RunTask calls made so far
  assertFailed, \* a MOZ_ASSERT of the code was reached with a false condition
  used,       \* client calls made so far, by kind
  env         \* what client code does in this run (fixed at the start)

vars == <<pr, queue, log, regs, nextDrain, assertFailed, used, env>>

\* Promise::Promise: the state after construction; the caller holds the
\* only reference.  life, held, made and owner are the object's lifetime,
\* whether client code holds a reference, the call that made it (resolve
\* and reject functions exist for one made by the constructor) and the
\* thread that made it; reports, attempts and torn record the
\* AsyncErrorReporters dispatched for it, the public settlement attempts
\* made on it, and the result it had at each teardown call made on it.
\* regs records, for every AppendCallbacks call, the Promise it was made
\* on, that Promise's state at the call, the Promise the pair of callbacks
\* settles and the client functions they wrap; log records every
\* PromiseCallback::Call made by RunTask.
NewPromise(owner, made) ==
  [life |-> "live", held |-> TRUE, made |-> made, owner |-> owner,
   mResult |-> Undef, mState |-> "Pending", mTaskPending |-> FALSE,
   mHadRejectCallback |-> FALSE, mResolvePending |-> FALSE,
   mResolveCallbacks |-> <<>>, mRejectCallbacks |-> <<>>,
   reports |-> 0, attempts |-> <<>>, torn |-> <<>>]

PromiseIds == DOMAIN pr

\* new Promise(window)
Construct(w, owner, made) == [w EXCEPT !.pr = Append(@, NewPromise(owner, made))]

\* The mutable world the code's functions act on, passed through them;
\* depth is the number of RunTask calls on the call stack.
World ==
  [pr |-> pr, queue |-> queue, log |-> log, regs |-> regs,
   nextDrain |-> nextDrain, assertFailed |-> assertFailed, depth |-> 0]

Commit(w) ==
  /\ pr' = w.pr
  /\ queue' = w.queue
  /\ log' = w.log
  /\ regs' = w.regs
  /\ nextDrain' = w.nextDrain
  /\ assertFailed' = w.assertFailed

Live(p) == pr[p].life = "live"

\* ------------------------------------------------------------- runnables
PromiseTask(p) == [kind |-> "PromiseTask", p |-> p, v |-> Undef, st |-> "Pending"]
PromiseResolverTask(p, v, st) == [kind |-> "PromiseResolverTask", p |-> p, v |-> v, st |-> st]
AsyncErrorReporter(p, v) == [kind |-> "AsyncErrorReporter", p |-> p, v |-> v, st |-> "Rejected"]

\* NS_DispatchToCurrentThread / worker->Dispatch: the runnable goes to the
\* tail of the queue of the thread t that is running the code.
Dispatch(w, t, task) == [w EXCEPT !.queue[t] = Append(@, task)]

\* ------------------------------------------------------------- callbacks
\* PromiseCallback objects.  type is the class, next the Promise it
\* settles, fn the user function a WrapperPromiseCallback holds; disp, reg
\* and on name the list it went to, the registration that appended it and
\* the Promise it was appended to.
Callback(type, next, fn, disp) ==
  [type |-> type, next |-> next, fn |-> fn, disp |-> disp, reg |-> 0, on |-> 0]

NullCallback == Callback("null", 0, "none", "Resolve")

ResolvePromiseCallback(p) == Callback("ResolvePromiseCallback", p, "none", "Resolve")
RejectPromiseCallback(p) == Callback("RejectPromiseCallback", p, "none", "Reject")

\* PromiseCallback::Factory: a user function is wrapped; its absence
\* passes the outcome through to the next Promise.
Factory(next, fn, task) ==
  IF fn # "none" THEN Callback("WrapperPromiseCallback", next, fn, task)
  ELSE IF task = "Resolve" THEN ResolvePromiseCallback(next)
  ELSE RejectPromiseCallback(next)

\* The user continuations modelled: v => v*2, one that throws, and one
\* that calls then() on the Promise it was given to and returns undefined.
UserFns == {"double", "throw", "rethen"}
Apply(fn, v) ==
  IF fn = "rethen" THEN Undef
  ELSE IF v.k = "int" THEN IntV(2 * v.n) ELSE NaNV

RECURSIVE RunTask(_, _, _)

\* AppendCallbacks that runs the callbacks of a settled Promise at once,
\* inside the registering call.
AppendCallbacksEager(w, t, p, aResolveCallback, aRejectCallback) ==
  LET r == Len(w.regs) + 1
      w1 == [w EXCEPT !.pr[p].mResolveCallbacks =
                        Append(@, [aResolveCallback EXCEPT !.reg = r, !.on = p]),
                      !.pr[p].mHadRejectCallback = TRUE,
                      !.pr[p].mRejectCallbacks =
                        Append(@, [aRejectCallback EXCEPT !.reg = r, !.on = p]),
                      !.regs = Append(@,
                        [on |-> p, state |-> w.pr[p].mState,
                         epoch |-> w.nextDrain, depth |-> w.depth,
                         next |-> aRejectCallback.next,
                         fn |-> <<aResolveCallback.fn, aRejectCallback.fn>>])]
  IN IF w1.pr[p].mState # "Pending" THEN RunTask(w1, t, p) ELSE w1

\* AppendCallbacks that queues a PromiseTask for every registration on a
\* settled Promise.
AppendCallbacksUncoalesced(w, t, p, aResolveCallback, aRejectCallback) ==
  LET r == Len(w.regs) + 1
      w1 == IF aResolveCallback # NullCallback
            THEN [w EXCEPT !.pr[p].mResolveCallbacks =
                             Append(@, [aResolveCallback EXCEPT !.reg = r, !.on = p])]
            ELSE w
      w2 == IF aRejectCallback # NullCallback
            THEN [w1 EXCEPT !.pr[p].mHadRejectCallback = TRUE,
                            !.pr[p].mRejectCallbacks =
                              Append(@, [aRejectCallback EXCEPT !.reg = r, !.on = p])]
            ELSE w1
      w3 == [w2 EXCEPT !.regs = Append(@,
               [on |-> p, state |-> w.pr[p].mState,
                epoch |-> w.nextDrain, depth |-> w.depth,
                next |-> aRejectCallback.next,
                fn |-> <<aResolveCallback.fn, aRejectCallback.fn>>])]
  IN IF w3.pr[p].mState # "Pending"
     THEN [Dispatch(w3, t, PromiseTask(p)) EXCEPT !.pr[p].mTaskPending = TRUE]
     ELSE w3

\* AppendCallbacks that queues a PromiseTask whatever the state of the
\* Promise is.
AppendCallbacksQueueingOnPending(w, t, p, aResolveCallback, aRejectCallback) ==
  LET r == Len(w.regs) + 1
      w1 == IF aResolveCallback # NullCallback
            THEN [w EXCEPT !.pr[p].mResolveCallbacks =
                             Append(@, [aResolveCallback EXCEPT !.reg = r, !.on = p])]
            ELSE w
      w2 == IF aRejectCallback # NullCallback
            THEN [w1 EXCEPT !.pr[p].mHadRejectCallback = TRUE,
                            !.pr[p].mRejectCallbacks =
                              Append(@, [aRejectCallback EXCEPT !.reg = r, !.on = p])]
            ELSE w1
      w3 == [w2 EXCEPT !.regs = Append(@,
               [on |-> p, state |-> w.pr[p].mState,
                epoch |-> w.nextDrain, depth |-> w.depth,
                next |-> aRejectCallback.next,
                fn |-> <<aResolveCallback.fn, aRejectCallback.fn>>])]
  IN IF ~w3.pr[p].mTaskPending
     THEN [Dispatch(w3, t, PromiseTask(p)) EXCEPT !.pr[p].mTaskPending = TRUE]
     ELSE w3

\* Promise::AppendCallbacks
AppendCallbacks(w, t, p, aResolveCallback, aRejectCallback) ==
  LET r == Len(w.regs) + 1
      w1 == IF aResolveCallback # NullCallback
            THEN [w EXCEPT !.pr[p].mResolveCallbacks =
                             Append(@, [aResolveCallback EXCEPT !.reg = r, !.on = p])]
            ELSE w
      w2 == IF aRejectCallback # NullCallback
            THEN [w1 EXCEPT !.pr[p].mHadRejectCallback = TRUE,
                            !.pr[p].mRejectCallbacks =
                              Append(@, [aRejectCallback EXCEPT !.reg = r, !.on = p])]
            ELSE w1
      w3 == [w2 EXCEPT !.regs = Append(@,
               [on |-> p, state |-> w.pr[p].mState,
                epoch |-> w.nextDrain, depth |-> w.depth,
                next |-> aRejectCallback.next,
                fn |-> <<aResolveCallback.fn, aRejectCallback.fn>>])]
  IN IF w3.pr[p].mState # "Pending" /\ ~w3.pr[p].mTaskPending
     THEN [Dispatch(w3, t, PromiseTask(p)) EXCEPT !.pr[p].mTaskPending = TRUE]
     ELSE w3

\* ------------------------------------------------------------- settlement
RECURSIVE RunCallbacks(_, _, _, _, _, _, _)
RECURSIVE Call(_, _, _, _)
RECURSIVE ResolveInternal(_, _, _, _, _)
RECURSIVE RejectInternal(_, _, _, _, _)
RECURSIVE RunResolveTask(_, _, _, _, _, _)

\* RunResolveTask that makes the unhandled-rejection check as soon as the
\* Promise is settled.
RunResolveTaskReporting(w, t, p, aValue, aState, aAsynchronous) ==
  IF aAsynchronous = "AsyncTask"
  THEN Dispatch(w, t, PromiseResolverTask(p, aValue, aState))
  ELSE LET w1 == [w EXCEPT !.pr[p].mResult = aValue, !.pr[p].mState = aState]
       IN RunTask(IF w1.pr[p].mState = "Rejected" /\ ~w1.pr[p].mHadRejectCallback
                     /\ ErrorFromException(w1.pr[p].mResult)
                  THEN [Dispatch(w1, "main", AsyncErrorReporter(p, aValue))
                          EXCEPT !.pr[p].reports = @ + 1]
                  ELSE w1, t, p)

\* RunResolveTask that calls RunTask before it sets the result and state.
RunResolveTaskDrainFirst(w, t, p, aValue, aState, aAsynchronous) ==
  IF aAsynchronous = "AsyncTask"
  THEN Dispatch(w, t, PromiseResolverTask(p, aValue, aState))
  ELSE [RunTask(w, t, p) EXCEPT !.pr[p].mResult = aValue, !.pr[p].mState = aState]

\* Promise::RunResolveTask
RunResolveTask(w, t, p, aValue, aState, aAsynchronous) ==
  IF aAsynchronous = "AsyncTask"
  THEN Dispatch(w, t, PromiseResolverTask(p, aValue, aState))
  ELSE RunTask([w EXCEPT !.pr[p].mResult = aValue, !.pr[p].mState = aState], t, p)

\* ResolveInternal that takes a Promise for a plain value.
ResolveInternalPlain(w, t, p, aValue, aAsynchronous) ==
  RunResolveTask([w EXCEPT !.pr[p].mResolvePending = TRUE],
                 t, p, aValue, "Resolved", aAsynchronous)

\* ResolveInternal that never settles synchronously: it queues a
\* PromiseResolverTask whatever aAsynchronous is.
ResolveInternalQueued(w, t, p, aValue, aAsynchronous) ==
  LET w1 == [w EXCEPT !.pr[p].mResolvePending = TRUE]
  IN IF isObject(aValue) /\ IsPromiseObject(aValue)
     THEN AppendCallbacks(w1, t, aValue.n,
                          ResolvePromiseCallback(p), RejectPromiseCallback(p))
     ELSE RunResolveTask(w1, t, p, aValue, "Resolved", "AsyncTask")

\* ResolveInternal that returns without settling when the object it is
\* given does not unwrap to a Promise.
ResolveInternalDropping(w, t, p, aValue, aAsynchronous) ==
  LET w1 == [w EXCEPT !.pr[p].mResolvePending = TRUE]
  IN IF isObject(aValue)
     THEN IF IsPromiseObject(aValue)
          THEN AppendCallbacks(w1, t, aValue.n,
                               ResolvePromiseCallback(p), RejectPromiseCallback(p))
          ELSE w1
     ELSE RunResolveTask(w1, t, p, aValue, "Resolved", aAsynchronous)

\* Promise::ResolveInternal
ResolveInternal(w, t, p, aValue, aAsynchronous) ==
  LET w1 == [w EXCEPT !.pr[p].mResolvePending = TRUE]
  IN IF isObject(aValue) /\ IsPromiseObject(aValue)
     THEN AppendCallbacks(w1, t, aValue.n,
                          ResolvePromiseCallback(p), RejectPromiseCallback(p))
     ELSE RunResolveTask(w1, t, p, aValue, "Resolved", aAsynchronous)

\* RejectInternal that follows a Promise it is given, as ResolveInternal does.
RejectInternalAdopting(w, t, p, aValue, aAsynchronous) ==
  LET w1 == [w EXCEPT !.pr[p].mResolvePending = TRUE]
  IN IF isObject(aValue) /\ IsPromiseObject(aValue)
     THEN AppendCallbacks(w1, t, aValue.n,
                          ResolvePromiseCallback(p), RejectPromiseCallback(p))
     ELSE RunResolveTask(w1, t, p, aValue, "Rejected", aAsynchronous)

\* RejectInternal that leaves mResolvePending as it finds it.
RejectInternalUnrecorded(w, t, p, aValue, aAsynchronous) ==
  RunResolveTask(w, t, p, aValue, "Rejected", aAsynchronous)

\* Promise::RejectInternal
RejectInternal(w, t, p, aValue, aAsynchronous) ==
  RunResolveTask([w EXCEPT !.pr[p].mResolvePending = TRUE],
                 t, p, aValue, "Rejected", aAsynchronous)

\* Promise::Then with the two functions mixed up.
ThenWorldSwapped(w, t, p, aResolveCallback, aRejectCallback) ==
  LET w1 == Construct(w, w.pr[p].owner, "Then")
      promise == Len(w1.pr)
      resolveCb == Factory(promise, aRejectCallback, "Resolve")
      rejectCb == Factory(promise, aResolveCallback, "Reject")
      w2 == AppendCallbacks(w1, t, p, resolveCb, rejectCb)
  IN [w2 EXCEPT !.regs[Len(w2.regs)].fn = <<aResolveCallback, aRejectCallback>>]

\* Promise::Then; the registration record keeps the functions the caller
\* passed.
ThenWorld(w, t, p, aResolveCallback, aRejectCallback) ==
  LET w1 == Construct(w, w.pr[p].owner, "Then")
      promise == Len(w1.pr)
      resolveCb == Factory(promise, aResolveCallback, "Resolve")
      rejectCb == Factory(promise, aRejectCallback, "Reject")
      w2 == AppendCallbacks(w1, t, p, resolveCb, rejectCb)
  IN [w2 EXCEPT !.regs[Len(w2.regs)].fn = <<aResolveCallback, aRejectCallback>>]

\* PromiseCallback::Call of the three callback classes: the pass-through
\* callbacks settle the next Promise synchronously with the value; the
\* wrapper runs the user function first, rejects the next Promise with what
\* it threw, and otherwise settles it with what it returned.
Call(w, t, cb, value) ==
  CASE cb.type = "ResolvePromiseCallback" ->
         ResolveInternal(w, t, cb.next, value, "SyncTask")
    [] cb.type = "RejectPromiseCallback" ->
         RejectInternal(w, t, cb.next, value, "SyncTask")
    [] OTHER ->
         LET w1 == IF cb.fn = "rethen"
                   THEN [ThenWorld(w, t, cb.on, "none", "none")
                           EXCEPT !.pr[Len(w.pr) + 1].held = FALSE]
                   ELSE w
         IN IF cb.fn = "throw"
            THEN RejectInternal(w1, t, cb.next, ErrV, "SyncTask")
            ELSE IF cb.disp = "Resolve"
            THEN ResolveInternal(w1, t, cb.next, Apply(cb.fn, value), "SyncTask")
            ELSE RejectInternal(w1, t, cb.next, Apply(cb.fn, value), "SyncTask")

\* The loop of RunTask taking the callbacks from the last to the first.
RECURSIVE RunCallbacksBackwards(_, _, _, _, _, _, _)
RunCallbacksBackwards(w, t, p, d, callbacks, value, i) ==
  IF i > Len(callbacks) THEN w
  ELSE LET cb == callbacks[Len(callbacks) + 1 - i]
           w1 == [w EXCEPT !.log = Append(@,
                     [on |-> p, reg |-> cb.reg, disp |-> cb.disp,
                      v |-> value, drain |-> d, depth |-> w.depth])]
       IN RunCallbacksBackwards(Call(w1, t, cb, value), t, p, d, callbacks, value, i + 1)

\* The loop of RunTask given up at the first callback whose function throws.
RECURSIVE RunCallbacksAborting(_, _, _, _, _, _, _)
RunCallbacksAborting(w, t, p, d, callbacks, value, i) ==
  IF i > Len(callbacks) THEN w
  ELSE LET cb == callbacks[i]
           w1 == [w EXCEPT !.log = Append(@,
                     [on |-> p, reg |-> cb.reg, disp |-> cb.disp,
                      v |-> value, drain |-> d, depth |-> w.depth])]
       IN IF cb.fn = "throw" THEN Call(w1, t, cb, value)
          ELSE RunCallbacksAborting(Call(w1, t, cb, value), t, p, d, callbacks, value, i + 1)

\* The loop of Promise::RunTask over the callbacks it took.
RunCallbacks(w, t, p, d, callbacks, value, i) ==
  IF i > Len(callbacks) THEN w
  ELSE LET cb == callbacks[i]
           w1 == [w EXCEPT !.log = Append(@,
                     [on |-> p, reg |-> cb.reg, disp |-> cb.disp,
                      v |-> value, drain |-> d, depth |-> w.depth])]
       IN RunCallbacks(Call(w1, t, cb, value), t, p, d, callbacks, value, i + 1)

\* RunTask that empties the two lists after it has called the callbacks.
RunTaskClearingAfter(w, t, p) ==
  LET d == w.nextDrain + 1
      callbacks == IF w.pr[p].mState = "Resolved"
                   THEN w.pr[p].mResolveCallbacks
                   ELSE w.pr[p].mRejectCallbacks
      w1 == [w EXCEPT !.nextDrain = d,
                      !.depth = @ + 1,
                      !.assertFailed = @ \/ w.pr[p].mState = "Pending"]
  IN [RunCallbacks(w1, t, p, d, callbacks, w.pr[p].mResult, 1)
        EXCEPT !.depth = w.depth,
               !.pr[p].mResolveCallbacks = <<>>,
               !.pr[p].mRejectCallbacks = <<>>]

\* Promise::RunTask
RunTask(w, t, p) ==
  LET d == w.nextDrain + 1
      callbacks == IF w.pr[p].mState = "Resolved"
                   THEN w.pr[p].mResolveCallbacks
                   ELSE w.pr[p].mRejectCallbacks
      w1 == [w EXCEPT !.nextDrain = d,
                      !.depth = @ + 1,
                      !.assertFailed = @ \/ w.pr[p].mState = "Pending",
                      !.pr[p].mResolveCallbacks = <<>>,
                      !.pr[p].mRejectCallbacks = <<>>]
  IN [RunCallbacks(w1, t, p, d, callbacks, w.pr[p].mResult, 1)
        EXCEPT !.depth = w.depth]

\* MaybeResolveInternal that settles in the call, whatever aAsynchronous is.
MaybeResolveInternalSync(w, t, p, aValue, aAsynchronous) ==
  IF w.pr[p].mResolvePending THEN w
  ELSE ResolveInternal(w, t, p, aValue, "SyncTask")

\* Promise::MaybeResolveInternal
MaybeResolveInternal(w, t, p, aValue, aAsynchronous) ==
  IF w.pr[p].mResolvePending THEN w
  ELSE ResolveInternal(w, t, p, aValue, aAsynchronous)

\* MaybeRejectInternal without the mResolvePending test.
MaybeRejectInternalUnguarded(w, t, p, aValue, aAsynchronous) ==
  RejectInternal(w, t, p, aValue, aAsynchronous)

\* Promise::MaybeRejectInternal
MaybeRejectInternal(w, t, p, aValue, aAsynchronous) ==
  IF w.pr[p].mResolvePending THEN w
  ELSE RejectInternal(w, t, p, aValue, aAsynchronous)

\* MaybeReportRejected that does not look at mHadRejectCallback.
MaybeReportRejectedUnhandledOrNot(w, p) ==
  IF w.pr[p].mState # "Rejected" \/ isUndefined(w.pr[p].mResult)
     \/ ~ErrorFromException(w.pr[p].mResult)
  THEN w
  ELSE [Dispatch(w, "main", AsyncErrorReporter(p, w.pr[p].mResult))
          EXCEPT !.pr[p].reports = @ + 1]

\* MaybeReportRejected that reports every unhandled rejection with a
\* result that is not undefined, error or not.
MaybeReportRejectedAnyValue(w, p) ==
  IF w.pr[p].mState # "Rejected" \/ w.pr[p].mHadRejectCallback
     \/ isUndefined(w.pr[p].mResult)
  THEN w
  ELSE [Dispatch(w, "main", AsyncErrorReporter(p, w.pr[p].mResult))
          EXCEPT !.pr[p].reports = @ + 1]

\* ------------------------------------------------------------- teardown
\* Promise::MaybeReportRejected; the AsyncErrorReporter always goes to the
\* main thread.
MaybeReportRejected(w, p) ==
  IF w.pr[p].mState # "Rejected" \/ w.pr[p].mHadRejectCallback
     \/ isUndefined(w.pr[p].mResult)
  THEN w
  ELSE IF ~ErrorFromException(w.pr[p].mResult) THEN w
  ELSE [Dispatch(w, "main", AsyncErrorReporter(p, w.pr[p].mResult))
          EXCEPT !.pr[p].reports = @ + 1]

\* The strong references the members of Promise q hold: the Promises its
\* callbacks settle (nsRefPtr) and its result, if that is a Promise (traced).
SeqRange(s) == {s[i] : i \in 1..Len(s)}
MemberRefs(q) ==
  {cb.next : cb \in SeqRange(pr[q].mResolveCallbacks)
                    \cup SeqRange(pr[q].mRejectCallbacks)}
  \cup (IF IsPromiseObject(pr[q].mResult) THEN {pr[q].mResult.n} ELSE {})

\* Runnables that hold plain pointers: they keep nothing alive.
TaskRefsWeak == {}

\* The references runnables in the queues hold: nsRefPtr<Promise> mPromise
\* and the rooted mValue. An AsyncErrorReporter holds the error report and
\* the window, not the Promise.
TaskRefs ==
  UNION {UNION {IF queue[c][i].kind = "AsyncErrorReporter" THEN {}
                ELSE {queue[c][i].p} \cup
                     (IF IsPromiseObject(queue[c][i].v) THEN {queue[c][i].v.n}
                      ELSE {})
                : i \in 1..Len(queue[c])} : c \in Contexts}

Roots == {p \in PromiseIds : pr[p].held} \cup TaskRefs

RECURSIVE Closure(_, _)
Closure(S, n) ==
  IF n = 0 THEN S
  ELSE Closure(S \cup UNION {MemberRefs(q) : q \in S}, n - 1)

Reachable == Closure(Roots, Len(pr))

NoRefs(p) ==
  /\ ~pr[p].held
  /\ p \notin TaskRefs
  /\ \A q \in PromiseIds : pr[q].life \in {"live", "unlinked"} => p \notin MemberRefs(q)

\* ------------------------------------------------------------- init
\* Client code is any program using the API.  A run explores one family of
\* such programs: the values it passes, the continuations it gives to
\* then/catch, and how many calls of each kind it makes.
AllFns == {<<f, g>> : f \in {"none", "double", "throw"}, g \in {"none", "double", "throw"}}

\* An executor: the calls it makes to the resolve and reject functions it
\* is handed, in order, and whether it then throws.
Executor(calls, throws) == [calls |-> calls, throws |-> throws]
Cap(task, v) == [task |-> task, v |-> v]
PlainExecutors == {Executor(<<>>, FALSE), Executor(<<>>, TRUE)}
BusyExecutors ==
  { Executor(<<Cap("Resolve", IntV(1)), Cap("Reject", IntV(2))>>, FALSE),
    Executor(<<Cap("Reject", IntV(1)), Cap("Resolve", IntV(2))>>, FALSE),
    Executor(<<Cap("Resolve", IntV(1))>>, TRUE),
    Executor(<<Cap("Reject", IntV(1))>>, TRUE) }

Profile(name, create, settle, then, drop, vals, chain, fns, execs) ==
  [name |-> name, create |-> create, settle |-> settle, then |-> then,
   drop |-> drop, vals |-> vals, chain |-> chain, fns |-> fns,
   execs |-> execs, threads |-> {"main"}]

Profiles ==
  { Profile("settle", 1, MaxSettle, 1, 0,
            {IntV(1), IntV(2)}, FALSE, {<<"none", "none">>},
            PlainExecutors \cup BusyExecutors),
    Profile("chain", MaxCreate, 1, 0, 0,
            {IntV(1)}, TRUE, {<<"none", "none">>}, PlainExecutors),
    Profile("adopt", 2, 1, 1, 0,
            {IntV(1)}, TRUE, {<<"none", "none">>}, PlainExecutors),
    Profile("order", 1, 0, MaxThen, 0,
            {IntV(1)}, FALSE, {<<"double", "none">>, <<"none", "double">>},
            PlainExecutors),
    Profile("continuations", 1, 0, MaxThen - 1, 0,
            {IntV(42)}, FALSE, AllFns, PlainExecutors),
    Profile("reentrant", 1, 0, MaxThen - 1, 0,
            {IntV(1)}, FALSE, {<<"rethen", "rethen">>, <<"none", "none">>},
            PlainExecutors),
    Profile("teardown", 1, 1, 1, MaxDrop,
            {Undef, IntV(1), ErrV}, FALSE,
            {<<"double", "none">>, <<"none", "double">>}, PlainExecutors),
    Profile("cycles", 2, 2, 0, MaxDrop,
            {}, TRUE, {<<"none", "none">>}, PlainExecutors),
    Profile("garbage", 1, 2, 1, MaxDrop,
            {ErrV}, TRUE, {<<"none", "none">>}, PlainExecutors),
    Profile("forward", 2, 1, 1, 0,
            {ErrV}, TRUE, {<<"none", "none">>}, {}),
    [Profile("threads", 1, 1, 1, 0,
             {IntV(1)}, FALSE, {<<"double", "none">>}, {Executor(<<>>, FALSE)})
       EXCEPT !.threads = Contexts] }

Init ==
  /\ pr = <<>>
  /\ queue = [c \in Contexts |-> <<>>]
  /\ log = <<>>
  /\ regs = <<>>
  /\ nextDrain = 0
  /\ assertFailed = FALSE
  /\ used = [create |-> 0, settle |-> 0, then |-> 0, drop |-> 0]
  /\ env \in Profiles

\* ------------------------------------------------------------- client calls

\* The values client code can pass: a plain value, or a Promise it holds.
ClientValues ==
  env.vals \cup (IF env.chain
                 THEN {PromiseV(q) : q \in {x \in PromiseIds : Live(x) /\ pr[x].held}}
                 ELSE {})

Use(kind) ==
  /\ used[kind] < env[kind]
  /\ used' = [used EXCEPT ![kind] = @ + 1]
  /\ UNCHANGED env

\* The record of a public settlement attempt on p, made in state w.
Note(w, p, task, v) ==
  [w EXCEPT !.pr[p].attempts =
     Append(@, [task |-> task, v |-> v, ignored |-> w.pr[p].mResolvePending])]

\* Promise::JSCallback: the resolve or reject function made by
\* CreateFunction for Promise p is called with aValue.
JSCallbackWorld(w, t, p, task, aValue) ==
  IF task = "Resolve"
  THEN MaybeResolveInternal(Note(w, p, task, aValue), t, p, aValue, "AsyncTask")
  ELSE MaybeRejectInternal(Note(w, p, task, aValue), t, p, aValue, "AsyncTask")

JSCallback(t, p, task, aValue) ==
  /\ Live(p) /\ pr[p].held /\ pr[p].made = "Constructor"
  /\ Use("settle")
  /\ Commit(JSCallbackWorld(World, t, p, task, aValue))

\* Promise::Resolve (static).  On the main thread the global must be a
\* window, or the call throws and makes nothing.
StaticResolve(t, aValue, isWindow) ==
  IF t = "main" /\ ~isWindow THEN UNCHANGED vars
  ELSE /\ Use("create")
       /\ LET w == Construct(World, t, "Resolve")
              promise == Len(w.pr)
          IN Commit(MaybeResolveInternal(Note(w, promise, "Resolve", aValue),
                                         t, promise, aValue, "AsyncTask"))

\* Promise::Reject (static)
StaticReject(t, aValue, isWindow) ==
  IF t = "main" /\ ~isWindow THEN UNCHANGED vars
  ELSE /\ Use("create")
       /\ LET w == Construct(World, t, "Reject")
              promise == Len(w.pr)
          IN Commit(MaybeRejectInternal(Note(w, promise, "Reject", aValue),
                                        t, promise, aValue, "AsyncTask"))

\* aInit.Call in Promise::Constructor: the executor runs synchronously and
\* calls the functions made for the new Promise.
RECURSIVE RunExecutor(_, _, _, _, _)
RunExecutor(w, t, p, calls, i) ==
  IF i > Len(calls) THEN w
  ELSE RunExecutor(JSCallbackWorld(w, t, p, calls[i].task, calls[i].v),
                   t, p, calls, i + 1)

\* Constructor that rejects the Promise with what the executor threw
\* without asking whether a settlement was already requested.
ConstructorRejecting(t, aInit, isWindow) ==
  IF t = "main" /\ ~isWindow THEN UNCHANGED vars
  ELSE /\ Use("create")
       /\ LET promise == Len(pr) + 1
              w == RunExecutor(Construct(World, t, "Constructor"),
                               t, promise, aInit.calls, 1)
          IN IF aInit.throws
             THEN Commit(RejectInternal(Note(w, promise, "Reject", ErrV),
                                        t, promise, ErrV, "AsyncTask"))
             ELSE Commit(w)

\* Promise::Constructor; what the executor throws rejects the Promise.
Constructor(t, aInit, isWindow) ==
  IF t = "main" /\ ~isWindow THEN UNCHANGED vars
  ELSE /\ Use("create")
       /\ LET promise == Len(pr) + 1
              w == RunExecutor(Construct(World, t, "Constructor"),
                               t, promise, aInit.calls, 1)
          IN IF aInit.throws
             THEN Commit(MaybeRejectInternal(Note(w, promise, "Reject", ErrV),
                                             t, promise, ErrV, "AsyncTask"))
             ELSE Commit(w)

\* Promise::MaybeResolve
MaybeResolve(t, p, aValue) ==
  /\ Live(p) /\ pr[p].held
  /\ Use("settle")
  /\ Commit(MaybeResolveInternal(Note(World, p, "Resolve", aValue),
                                 t, p, aValue, "AsyncTask"))

\* Promise::MaybeReject
MaybeReject(t, p, aValue) ==
  /\ Live(p) /\ pr[p].held
  /\ Use("settle")
  /\ Commit(MaybeRejectInternal(Note(World, p, "Reject", aValue),
                                t, p, aValue, "AsyncTask"))

\* Promise::Then, called by client code
Then(t, p, aResolveCallback, aRejectCallback) ==
  /\ Live(p) /\ pr[p].held
  /\ Use("then")
  /\ Commit(ThenWorld(World, t, p, aResolveCallback, aRejectCallback))

\* Catch that passes its function on as the resolve function.
CatchAsResolve(t, p, aRejectCallback) ==
  /\ Live(p) /\ pr[p].held
  /\ Use("then")
  /\ Commit(ThenWorld(World, t, p, aRejectCallback, "none"))

\* Promise::Catch
Catch(t, p, aRejectCallback) ==
  /\ Live(p) /\ pr[p].held
  /\ Use("then")
  /\ Commit(ThenWorld(World, t, p, "none", aRejectCallback))

\* ------------------------------------------------------------- event loop
\* PromiseTask::Run / WorkerPromiseTask::WorkerRun
PromiseTaskRun(w, t, p) ==
  RunTask([w EXCEPT !.pr[p].mTaskPending = FALSE], t, p)

\* PromiseResolverMixin::RunInternal
RunInternal(w, t, task) ==
  RunResolveTask(w, t, task.p, task.v, task.st, "SyncTask")

\* Thread t takes the runnable at the head of its queue and runs it.
RunNext(t) ==
  /\ queue[t] # <<>>
  /\ LET task == Head(queue[t])
         w == [World EXCEPT !.queue[t] = Tail(@)]
     IN Commit(CASE task.kind = "PromiseTask" -> PromiseTaskRun(w, t, task.p)
                 [] task.kind = "PromiseResolverTask" -> RunInternal(w, t, task)
                 [] OTHER -> w)
  /\ UNCHANGED <<used, env>>

\* ------------------------------------------------------------- lifetime
\* Client code drops its reference to Promise p (and to the functions made
\* for it).
Release(p) ==
  /\ Live(p) /\ pr[p].held
  /\ pr' = [pr EXCEPT ![p].held = FALSE]
  /\ Use("drop")
  /\ UNCHANGED <<queue, log, regs, nextDrain, assertFailed>>

\* Unlink that leaves mResult as it is.
UnlinkKeepingResult(p) ==
  /\ Live(p) /\ p \notin Reachable /\ ~NoRefs(p)
  /\ Commit([MaybeReportRejected(World, p) EXCEPT
               !.pr[p].mResolveCallbacks = <<>>,
               !.pr[p].mRejectCallbacks = <<>>,
               !.pr[p].torn = Append(@, pr[p].mResult),
               !.pr[p].life = "unlinked"])
  /\ UNCHANGED <<used, env>>

\* NS_IMPL_CYCLE_COLLECTION_UNLINK: the cycle collector unlinks a Promise
\* that is garbage but still referenced from its garbage cycle.
Unlink(p) ==
  /\ Live(p) /\ p \notin Reachable /\ ~NoRefs(p)
  /\ Commit([MaybeReportRejected(World, p) EXCEPT
               !.pr[p].mResolveCallbacks = <<>>,
               !.pr[p].mRejectCallbacks = <<>>,
               !.pr[p].mResult = Undef,
               !.pr[p].torn = Append(@, pr[p].mResult),
               !.pr[p].life = "unlinked"])
  /\ UNCHANGED <<used, env>>

\* A destructor that clears mResult before it looks for a rejection to
\* report.
DestroyClearingFirst(p) ==
  /\ pr[p].life \in {"live", "unlinked"} /\ NoRefs(p)
  /\ Commit([MaybeReportRejected([World EXCEPT !.pr[p].mResult = Undef], p)
               EXCEPT
               !.pr[p].mResolveCallbacks = <<>>,
               !.pr[p].mRejectCallbacks = <<>>,
               !.pr[p].torn = Append(@, pr[p].mResult),
               !.pr[p].life = "dead"])
  /\ UNCHANGED <<used, env>>

\* Promise::~Promise, when the last reference is gone.
Destroy(p) ==
  /\ pr[p].life \in {"live", "unlinked"} /\ NoRefs(p)
  /\ Commit([MaybeReportRejected(World, p) EXCEPT
               !.pr[p].mResolveCallbacks = <<>>,
               !.pr[p].mRejectCallbacks = <<>>,
               !.pr[p].mResult = Undef,
               !.pr[p].torn = Append(@, pr[p].mResult),
               !.pr[p].life = "dead"])
  /\ UNCHANGED <<used, env>>

\* ------------------------------------------------------------- next
Next ==
  \/ \E t \in env.threads, v \in ClientValues, isWindow \in BOOLEAN :
        StaticResolve(t, v, isWindow)
  \/ \E t \in env.threads, v \in ClientValues, isWindow \in BOOLEAN :
        StaticReject(t, v, isWindow)
  \/ \E t \in env.threads, aInit \in env.execs, isWindow \in BOOLEAN :
        Constructor(t, aInit, isWindow)
  \/ \E t \in env.threads, p \in PromiseIds, task \in {"Resolve", "Reject"},
        v \in ClientValues : JSCallback(t, p, task, v)
  \/ \E t \in env.threads, p \in PromiseIds, v \in ClientValues : MaybeResolve(t, p, v)
  \/ \E t \in env.threads, p \in PromiseIds, v \in ClientValues : MaybeReject(t, p, v)
  \/ \E t \in env.threads, p \in PromiseIds, fg \in env.fns : Then(t, p, fg[1], fg[2])
  \/ \E t \in env.threads, p \in PromiseIds, fg \in env.fns :
        fg[1] = "none" /\ Catch(t, p, fg[2])
  \/ \E t \in Contexts : RunNext(t)
  \/ \E p \in PromiseIds : Release(p)
  \/ \E p \in PromiseIds : Unlink(p)
  \/ \E p \in PromiseIds : Destroy(p)

Spec == Init /\ [][Next]_vars

\* ------------------------------------------------------------- properties
\* No runnable is waiting on any thread.
Quiescent == \A c \in Contexts : queue[c] = <<>>

StateOf(task) == IF task = "Resolve" THEN "Resolved" ELSE "Rejected"

\* The members of Promise q in the sequence of Promises s that the code
\* reads and writes.
Fields(s, q) ==
  [mState |-> s[q].mState, mResult |-> s[q].mResult,
   mTaskPending |-> s[q].mTaskPending,
   mHadRejectCallback |-> s[q].mHadRejectCallback,
   mResolvePending |-> s[q].mResolvePending,
   mResolveCallbacks |-> s[q].mResolveCallbacks,
   mRejectCallbacks |-> s[q].mRejectCallbacks]

\* The invocations recorded for registration r.
Invocations(r) == {i \in 1..Len(log) : log[i].reg = r}

\* C1: the state of a Promise changes at most once: once it is Resolved or
\* Rejected, no step changes its state or its result for as long as the
\* object is alive.
SettledOnce ==
  [][\A p \in DOMAIN pr :
       (pr[p].mState # "Pending" /\ pr'[p].life = "live")
         => (pr'[p].mState = pr[p].mState /\ pr'[p].mResult = pr[p].mResult)]_vars

\* C2: when the first public settlement attempt on a Promise carries a value
\* that is not a Promise and is the first request to settle it, then once
\* every task has run the Promise has the disposition and the value of that
\* first attempt.
FirstAttemptWins ==
  Quiescent =>
    \A p \in DOMAIN pr :
      (Live(p) /\ pr[p].attempts # <<>> /\ ~pr[p].attempts[1].ignored
         /\ ~IsPromiseObject(pr[p].attempts[1].v))
        => (pr[p].mState = StateOf(pr[p].attempts[1].task)
              /\ pr[p].mResult = pr[p].attempts[1].v)

\* C3: a public settlement attempt on a Promise whose mResolvePending is
\* already set changes nothing: no member of any Promise changes, no Promise
\* is made, no runnable is dispatched, no callback is appended or invoked.
IgnoredAttemptIsNoOp ==
  [][\A p \in DOMAIN pr :
       (pr[p].mResolvePending /\ Len(pr'[p].attempts) > Len(pr[p].attempts))
         => (/\ DOMAIN pr' = DOMAIN pr
             /\ \A q \in DOMAIN pr : Fields(pr', q) = Fields(pr, q)
             /\ queue' = queue
             /\ regs' = regs
             /\ log' = log
             /\ assertFailed' = assertFailed)]_vars

\* A later attempt was made on a Promise whose settlement had been asked
\* for, by an attempt of the other disposition.
IgnoredAttemptMade ==
  \E p \in DOMAIN pr : \E i \in 2..Len(pr[p].attempts) :
    /\ pr[p].attempts[i].ignored
    /\ pr[p].attempts[i].task # pr[p].attempts[1].task

\* C4: the callbacks registered on a Promise while it was Pending run in one
\* pass of RunTask, and every pass invokes callbacks in the order in which
\* they were registered.
InRegistrationOrder ==
  \A i, j \in 1..Len(log) :
    /\ (i < j /\ log[i].drain = log[j].drain) => log[i].reg < log[j].reg
    /\ (log[i].on = log[j].on /\ regs[log[i].reg].state = "Pending"
          /\ regs[log[j].reg].state = "Pending")
         => log[i].drain = log[j].drain

\* Three callbacks registered on one Pending Promise have run, in one pass.
ThreeCallbacksRan ==
  \E i, j, k \in 1..Len(log) :
    /\ i < j /\ j < k
    /\ log[i].drain = log[j].drain /\ log[j].drain = log[k].drain
    /\ \A x \in {i, j, k} : regs[log[x].reg].state = "Pending"

\* C5: a Then or Catch call on a Promise that is already settled invokes
\* nothing itself and leaves a PromiseTask for the Promise queued; a callback
\* pair registered on a settled Promise is never invoked twice, and once
\* every task has run it has been invoked exactly once.
LateRegistrationDeferred ==
  /\ [][(used'.then = used.then + 1 /\ regs'[Len(regs')].state # "Pending")
          => (/\ log' = log
              /\ Len(regs') = Len(regs) + 1
              /\ pr'[regs'[Len(regs')].on].mTaskPending
              /\ \E c \in Contexts :
                   PromiseTask(regs'[Len(regs')].on) \in SeqRange(queue'[c]))]_vars
  /\ [](\A r \in DOMAIN regs :
          regs[r].state # "Pending"
            => (/\ Cardinality(Invocations(r)) <= 1
                /\ Quiescent => Cardinality(Invocations(r)) = 1))

\* A callback registered on a settled Promise has been invoked.
LateCallbackRan ==
  \E r \in DOMAIN regs : regs[r].state # "Pending" /\ Invocations(r) # {}

\* C6: once every task has run, every callback pair registered on a Promise
\* that has settled was invoked exactly once, through the callback of the
\* Promise's state and with the Promise's result.
NoCallbackLostOrDuplicated ==
  Quiescent =>
    \A r \in DOMAIN regs :
      (Live(regs[r].on) /\ pr[regs[r].on].mState # "Pending")
        => (/\ Cardinality(Invocations(r)) = 1
            /\ \A i \in Invocations(r) :
                 /\ StateOf(log[i].disp) = pr[regs[r].on].mState
                 /\ log[i].v = pr[regs[r].on].mResult)

\* The Promises q that static Promise::Resolve was given when it made p,
\* themselves made by static Promise::Resolve with a value that is no Promise.
ResolveOfResolve(p, q) ==
  /\ pr[p].made = "Resolve" /\ pr[p].attempts[1].v = PromiseV(q)
  /\ pr[q].made = "Resolve" /\ ~IsPromiseObject(pr[q].attempts[1].v)
  /\ Live(p) /\ Live(q)

\* C7: the Promise made by Resolve(Resolve(v)) is never settled otherwise
\* than Resolved with v, and is Resolved with v once every task has run.
ResolveOfResolveUnwraps ==
  \A p, q \in DOMAIN pr :
    ResolveOfResolve(p, q)
      => (/\ pr[p].mState # "Pending"
               => (pr[p].mState = "Resolved" /\ pr[p].mResult = pr[q].attempts[1].v)
          /\ Quiescent => pr[p].mState = "Resolved")

\* Resolve(Resolve(v)) has settled.
ResolveOfResolveSettled ==
  \E p, q \in DOMAIN pr : ResolveOfResolve(p, q) /\ pr[p].mState = "Resolved"

\* C8: a Promise P whose settlement was asked for by resolving it with
\* another Promise Q is Pending while Q is Pending, has the state and the
\* result of Q whenever it is settled, and is settled once Q is settled and
\* every task has run.
AdoptsOutcome ==
  \A p \in DOMAIN pr : \A i \in DOMAIN pr[p].attempts :
    (/\ ~pr[p].attempts[i].ignored /\ pr[p].attempts[i].task = "Resolve"
     /\ IsPromiseObject(pr[p].attempts[i].v) /\ pr[p].attempts[i].v.n # p
     /\ Live(p) /\ Live(pr[p].attempts[i].v.n))
      => (/\ pr[p].mState # "Pending"
               => (/\ pr[p].mState = pr[pr[p].attempts[i].v.n].mState
                   /\ pr[p].mResult = pr[pr[p].attempts[i].v.n].mResult)
          /\ (Quiescent /\ pr[pr[p].attempts[i].v.n].mState # "Pending")
               => pr[p].mState # "Pending")

\* Static Promise::Reject made p and was given the Promise q.
RejectOfPromise(p, q) ==
  pr[p].made = "Reject" /\ pr[p].attempts[1].v = PromiseV(q) /\ Live(p)

\* C9: the Promise made by Reject(q), q a Promise, is never the Promise a
\* callback settles, is never Resolved, has q itself as its result when it
\* is Rejected, and is Rejected once every task has run, whatever q does.
RejectKeepsPromise ==
  \A p, q \in DOMAIN pr :
    RejectOfPromise(p, q)
      => (/\ \A x \in DOMAIN pr :
               \A cb \in SeqRange(pr[x].mResolveCallbacks)
                            \cup SeqRange(pr[x].mRejectCallbacks) : cb.next # p
          /\ pr[p].mState # "Resolved"
          /\ pr[p].mState = "Rejected" => pr[p].mResult = PromiseV(q)
          /\ Quiescent => pr[p].mState = "Rejected")

\* Reject(q) is Rejected with q while q is still Pending.
RejectedWithPendingPromise ==
  \E p, q \in DOMAIN pr :
    /\ RejectOfPromise(p, q) /\ Live(q)
    /\ pr[p].mState = "Rejected" /\ pr[p].mResult = PromiseV(q)
    /\ pr[q].mState = "Pending"

\* C10: no AsyncErrorReporter is ever dispatched for a Promise that was given
\* a reject callback, whenever before its teardown the callback was given.
HandledRejectionNotReported ==
  \A p \in DOMAIN pr : pr[p].mHadRejectCallback => pr[p].reports = 0

\* A Promise rejected with an error was given its reject callback after it
\* was Rejected, and has been destroyed without a report.
LateHandlerDestroyed ==
  \E p \in DOMAIN pr :
    /\ pr[p].life = "dead" /\ pr[p].mState = "Rejected"
    /\ pr[p].attempts # <<>> /\ ErrorFromException(pr[p].attempts[1].v)
    /\ pr[p].mHadRejectCallback /\ pr[p].reports = 0
    /\ \E r \in DOMAIN regs : regs[r].on = p /\ regs[r].state = "Rejected"

\* C11: a Promise torn down while Rejected with an error, no reject callback
\* ever appended to it, has exactly one AsyncErrorReporter dispatched for
\* it, whether it was destroyed at once or unlinked first and destroyed
\* later; and no Promise ever has two.
UnhandledRejectionReportedOnce ==
  \A p \in DOMAIN pr :
    /\ pr[p].reports <= 1
    /\ (pr[p].torn # <<>> /\ pr[p].mState = "Rejected"
          /\ ErrorFromException(pr[p].torn[1]) /\ ~pr[p].mHadRejectCallback)
         => pr[p].reports = 1

\* A Promise rejected with an error and never given a reject callback went
\* through both teardown calls, unlink and then the destructor.
UnhandledTornDownTwice ==
  \E p \in DOMAIN pr :
    /\ pr[p].life = "dead" /\ Len(pr[p].torn) = 2
    /\ pr[p].mState = "Rejected" /\ ErrorFromException(pr[p].torn[1])
    /\ ~pr[p].mHadRejectCallback /\ pr[p].reports = 1

\* C12 as stated: an AsyncErrorReporter is dispatched for a Promise only in
\* a step before which nothing at all holds a reference to the Promise.
ReportedOnlyUnreferenced ==
  [][\A p \in DOMAIN pr :
       pr'[p].reports > pr[p].reports => NoRefs(p)]_vars

\* C12, amended: an AsyncErrorReporter is dispatched for a Promise only by
\* its own unlink or destruction, when it was Rejected before the step and
\* cannot be reached from a client reference or a queued runnable; the step
\* invokes nothing and only appends the AsyncErrorReporter to the main
\* thread's queue.
ReportedOnlyAtTeardown ==
  [][\A p \in DOMAIN pr :
       pr'[p].reports > pr[p].reports
         => (/\ pr[p].life # pr'[p].life
             /\ pr'[p].life \in {"unlinked", "dead"}
             /\ p \notin Reachable
             /\ pr[p].mState = "Rejected" /\ pr'[p].mState = "Rejected"
             /\ log' = log
             /\ queue' = [queue EXCEPT !["main"] =
                            Append(@, AsyncErrorReporter(p, pr[p].mResult))])]_vars

\* The report for an unlinked, not yet destroyed Promise is waiting in the
\* main thread's queue.
ReportQueued ==
  \E p \in DOMAIN pr :
    /\ pr[p].life = "unlinked" /\ pr[p].reports = 1
    /\ \E i \in 1..Len(queue["main"]) :
         queue["main"][i].kind = "AsyncErrorReporter" /\ queue["main"][i].p = p

\* The registrations r1, r2 made by p.then(f).then(g), f doubling, on a
\* Promise p made by Promise::Resolve(42): r2 is made on the Promise r1
\* settles, while that Promise is Pending.
ThenChain(r1, r2) ==
  /\ regs[r1].fn[1] = "double"
  /\ regs[r2].on = regs[r1].next /\ regs[r2].state = "Pending"
  /\ pr[regs[r1].on].made = "Resolve"
  /\ pr[regs[r1].on].attempts[1].v = IntV(42)
  /\ Live(regs[r1].on) /\ Live(regs[r2].on)

\* g is invoked at most once, only with 84, and has been invoked once every
\* task has run.
InvokedOnceWithDouble(r2) ==
  /\ Cardinality(Invocations(r2)) <= 1
  /\ Quiescent => Cardinality(Invocations(r2)) = 1
  /\ \A i \in Invocations(r2) : log[i].v = IntV(84) /\ log[i].disp = "Resolve"

ThenOutcome(fn, disp, v) ==
  IF fn = "none" THEN <<StateOf(disp), v>>
  ELSE IF fn = "throw" THEN <<"Rejected", ErrV>>
  ELSE <<StateOf(disp), Apply(fn, v)>>

\* C14: a then/catch call makes exactly one new Promise, Pending when the
\* call returns.  When the parent's RunTask has invoked the callback pair,
\* the child (settled by nothing else) is Resolved with what the resolve
\* function returned if the parent is Resolved, Rejected with what the
\* reject function returned if the parent is Rejected, Rejected with the
\* exception if the function threw, and has the parent's state and result
\* if the function for the parent's state was not passed.
ThenSettlesChild ==
  /\ [][used'.then = used.then + 1
          => (/\ Len(pr') = Len(pr) + 1
              /\ pr'[Len(pr')].made = "Then"
              /\ pr'[Len(pr')].mState = "Pending"
              /\ pr'[Len(pr')].mResult = Undef
              /\ regs'[Len(regs')].next = Len(pr'))]_vars
  /\ [](\A i \in DOMAIN log :
          (/\ pr[regs[log[i].reg].next].made = "Then"
           /\ pr[regs[log[i].reg].next].attempts = <<>>
           /\ Live(regs[log[i].reg].next) /\ Live(log[i].on))
            => (/\ StateOf(log[i].disp) = pr[log[i].on].mState
                /\ log[i].v = pr[log[i].on].mResult
                /\ <<pr[regs[log[i].reg].next].mState,
                      pr[regs[log[i].reg].next].mResult>>
                     = ThenOutcome(regs[log[i].reg].fn[IF log[i].disp = "Resolve"
                                                       THEN 1 ELSE 2],
                                   log[i].disp, log[i].v)))

\* A child is Rejected with 84, the value its reject function returned for
\* the parent's rejection with 42.
ChildRejectedWithReturnValue ==
  \E i \in DOMAIN log :
    /\ log[i].disp = "Reject" /\ log[i].v = IntV(42)
    /\ regs[log[i].reg].fn[2] = "double"
    /\ pr[regs[log[i].reg].next].mState = "Rejected"
    /\ pr[regs[log[i].reg].next].mResult = IntV(84)

\* The client function that invocation i of the log ran ("none": the
\* pass-through callback).
InvokedFn(i) == regs[log[i].reg].fn[IF log[i].disp = "Resolve" THEN 1 ELSE 2]

\* Registration r on Promise p was in p's callback lists when RunTask number
\* d took them: made before d began and invoked by no earlier RunTask.
TakenBy(r, p, d) ==
  /\ regs[r].on = p
  /\ regs[r].epoch < d
  /\ \A j \in DOMAIN log : log[j].reg = r => log[j].drain >= d

\* C15: when a client function throws during a RunTask, every callback that
\* RunTask took is still invoked, with the same value; the Promise being
\* drained keeps its state and result; the child of the throwing callback
\* is Rejected with the exception and the children of the other callbacks
\* are settled by their own functions.
ThrowDoesNotStopRunTask ==
  \A i \in DOMAIN log :
    InvokedFn(i) = "throw" =>
      /\ \A r \in DOMAIN regs :
           TakenBy(r, log[i].on, log[i].drain) =>
             \E j \in DOMAIN log :
               /\ log[j].reg = r /\ log[j].drain = log[i].drain
               /\ log[j].v = log[i].v /\ log[j].disp = log[i].disp
               /\ (Live(regs[r].next) /\ pr[regs[r].next].attempts = <<>>)
                    => <<pr[regs[r].next].mState, pr[regs[r].next].mResult>>
                         = ThenOutcome(InvokedFn(j), log[j].disp, log[j].v)
      /\ Live(log[i].on) =>
           /\ pr[log[i].on].mState = StateOf(log[i].disp)
           /\ pr[log[i].on].mResult = log[i].v

\* A RunTask called a function that threw and then a function that
\* returned: the first child is Rejected with the exception, the second is
\* Resolved with 84.
CallbackRanAfterThrow ==
  \E i, j \in DOMAIN log :
    /\ i < j /\ log[i].drain = log[j].drain /\ log[i].on = log[j].on
    /\ InvokedFn(i) = "throw" /\ InvokedFn(j) = "double"
    /\ pr[regs[log[i].reg].next].mState = "Rejected"
    /\ pr[regs[log[i].reg].next].mResult = ErrV
    /\ pr[regs[log[j].reg].next].mState = "Resolved"
    /\ pr[regs[log[j].reg].next].mResult = IntV(84)

\* C16: catch(g) is then(undefined, g).  Every step catch(g) can take from a
\* state is a step then(undefined, g) can take from it and the other way
\* round: the same new child, the same callback lists, mHadRejectCallback
\* and queued runnables.  The states after the two calls being equal, every
\* later sequence of operations settles the two children alike.
CatchIsThenWithoutResolveCallback ==
  [][\A t \in Contexts, p \in PromiseIds, g \in UserFns \cup {"none"} :
       Catch(t, p, g) <=> Then(t, p, "none", g)]_vars

\* A Promise was given a reject function and no resolve function, as catch
\* does, before it was settled; the registration set mHadRejectCallback,
\* and when the Promise was Rejected with 42 the function ran and the child
\* was Rejected with 84.
CatchChildSettled ==
  \E i \in DOMAIN log :
    /\ regs[log[i].reg].fn = <<"none", "double">>
    /\ regs[log[i].reg].state = "Pending"
    /\ log[i].disp = "Reject" /\ log[i].v = IntV(42)
    /\ pr[regs[log[i].reg].next].made = "Then"
    /\ pr[regs[log[i].reg].next].mState = "Rejected"
    /\ pr[regs[log[i].reg].next].mResult = IntV(84)

\* A PromiseResolverTask that will put Promise p in state st with result v
\* is waiting on some thread.
SettleQueued(p, v, st) ==
  \E t \in Contexts : \E k \in DOMAIN queue[t] :
    queue[t][k] = PromiseResolverTask(p, v, st)

\* Promise p was made by the constructor and its executor threw as attempt
\* number k on p (the executor's calls of the two functions come first).
ExecutorThrewAt(p, k) ==
  /\ pr[p].made = "Constructor"
  /\ k \in DOMAIN pr[p].attempts
  /\ pr[p].attempts[k] = [task |-> "Reject", v |-> ErrV, ignored |-> k > 1]

\* C17: an executor that throws before calling either function leaves the
\* Promise with a PromiseResolverTask queued that rejects it with the
\* exception, and once that has run the Promise is Rejected with the
\* exception; an executor that throws after calling a function has its
\* exception dropped: no runnable carries it, and the Promise is settled,
\* or waiting to be settled, as the first call asked.
ExecutorThrowRejectsUnlessSettled ==
  \A p \in PromiseIds :
    Live(p) =>
      /\ ExecutorThrewAt(p, 1) =>
           \/ pr[p].mState = "Pending" /\ SettleQueued(p, ErrV, "Rejected")
           \/ /\ pr[p].mState = "Rejected" /\ pr[p].mResult = ErrV
              /\ ~SettleQueued(p, ErrV, "Rejected")
      /\ \A k \in DOMAIN pr[p].attempts :
           (k > 1 /\ ExecutorThrewAt(p, k) /\ ~isObject(pr[p].attempts[1].v)) =>
             LET first == pr[p].attempts[1]
             IN /\ ~SettleQueued(p, ErrV, "Rejected")
                /\ \/ /\ pr[p].mState = "Pending"
                      /\ SettleQueued(p, first.v, StateOf(first.task))
                   \/ /\ pr[p].mState = StateOf(first.task)
                      /\ pr[p].mResult = first.v

\* The executor called resolve(1) and then threw; the exception was
\* dropped, the PromiseResolverTask has run and the Promise is Resolved
\* with 1.
ExecutorThrowSettled ==
  \E p \in PromiseIds :
    /\ Quiescent
    /\ ExecutorThrewAt(p, 2)
    /\ pr[p].attempts[1] = [task |-> "Resolve", v |-> IntV(1), ignored |-> FALSE]
    /\ pr[p].mState = "Resolved" /\ pr[p].mResult = IntV(1)

\* C18: every PromiseTask and PromiseResolverTask waiting on a thread is
\* for a Promise made on that thread, whichever thread made the call that
\* dispatched it.
TasksOnOwningContext ==
  \A t \in Contexts : \A k \in DOMAIN queue[t] :
    queue[t][k].kind \in {"PromiseTask", "PromiseResolverTask"}
      => pr[queue[t][k].p].owner = t

\* The callback lists and settlement fields of Promise p.
Confined(s, p) ==
  <<s[p].mState, s[p].mResult, s[p].mResolvePending, s[p].mTaskPending,
    s[p].mResolveCallbacks, s[p].mRejectCallbacks>>

\* The step is one that thread t takes: a client call made on t or a
\* runnable taken from t's queue.
StepOf(t) ==
  \/ \E v \in ClientValues, isWindow \in BOOLEAN :
        StaticResolve(t, v, isWindow) \/ StaticReject(t, v, isWindow)
  \/ \E aInit \in env.execs, isWindow \in BOOLEAN : Constructor(t, aInit, isWindow)
  \/ \E p \in PromiseIds, v \in ClientValues :
        \/ MaybeResolve(t, p, v) \/ MaybeReject(t, p, v)
        \/ JSCallback(t, p, "Resolve", v) \/ JSCallback(t, p, "Reject", v)
  \/ \E p \in PromiseIds, fg \in env.fns :
        Then(t, p, fg[1], fg[2]) \/ Catch(t, p, fg[2])
  \/ RunNext(t)

\* C19: the callback lists, mState, mResult, mResolvePending and
\* mTaskPending of a Promise change only in steps of the thread the Promise
\* was made on (the cycle collector and the destructor, which run there,
\* apart).
MutatedOnlyByOwningContext ==
  [][\A p \in PromiseIds :
       Confined(pr', p) # Confined(pr, p)
         => StepOf(pr[p].owner) \/ Unlink(p) \/ Destroy(p)]_vars

\* The settlement attempts recorded on Promise p before the step (none for
\* a Promise the step makes) and those the step adds.
AttemptsBefore(p) == IF p \in DOMAIN pr THEN pr[p].attempts ELSE <<>>
AttemptsAdded(p) ==
  SubSeq(pr'[p].attempts, Len(AttemptsBefore(p)) + 1, Len(pr'[p].attempts))

\* The runnables the requests in the sequence of attempts as dispatch for
\* Promise p: one PromiseResolverTask for each request that was not ignored.
RECURSIVE TasksFor(_, _)
TasksFor(p, as) ==
  IF as = <<>> THEN <<>>
  ELSE (IF as[1].ignored THEN <<>>
        ELSE <<PromiseResolverTask(p, as[1].v, StateOf(as[1].task))>>)
       \o TasksFor(p, Tail(as))

\* C20: a call of Promise.resolve/reject, of a resolve or reject function
\* (from the executor or later) or of MaybeResolve/MaybeReject with a value
\* that is not a Promise changes no mState and no mResult and calls no
\* callback; unless the request is ignored because an earlier one was made,
\* it appends exactly one PromiseResolverTask, for that Promise, value and
\* state, to the calling thread's queue.  mState changes and callbacks are
\* called only in steps that run a queued runnable.
ExternalSettlementIsDeferred ==
  /\ [][\A p \in DOMAIN pr' :
          (AttemptsAdded(p) # <<>>
           /\ \A k \in DOMAIN AttemptsAdded(p) : ~isObject(AttemptsAdded(p)[k].v))
            => /\ \A q \in DOMAIN pr :
                    pr'[q].mState = pr[q].mState /\ pr'[q].mResult = pr[q].mResult
               /\ pr'[p].mState = "Pending" \/ p \in DOMAIN pr
               /\ log' = log
               /\ Len(TasksFor(p, AttemptsAdded(p))) <= 1
               /\ \E t \in Contexts :
                    queue' = [queue EXCEPT ![t] = @ \o TasksFor(p, AttemptsAdded(p))]]_vars
  /\ [][((\E q \in DOMAIN pr : pr'[q].mState # pr[q].mState) \/ log' # log)
          => \E t \in Contexts : RunNext(t)]_vars

\* A Pending Promise with a callback registered was asked to resolve with
\* 1: it is still Pending, the callback has not been called and its
\* PromiseResolverTask is waiting.
SettlementRequestedNotRun ==
  \E p \in PromiseIds :
    /\ pr[p].mState = "Pending" /\ pr[p].mResult = Undef
    /\ pr[p].mResolveCallbacks # <<>>
    /\ pr[p].attempts # <<>> /\ pr[p].attempts[1].task = "Resolve"
    /\ SettleQueued(p, IntV(1), "Resolved")
    /\ log = <<>>

\* C21: a Promise (not one made by then) whose first settlement request is
\* to resolve with an object that does not unwrap to a Promise is settled
\* with it as with any plain value: its PromiseResolverTask is waiting, or
\* it is Resolved with that very object.
PlainObjectFulfils ==
  \A p \in PromiseIds :
    (/\ Live(p) /\ pr[p].made # "Then"
     /\ pr[p].attempts # <<>>
     /\ pr[p].attempts[1].task = "Resolve"
     /\ isObject(pr[p].attempts[1].v)
     /\ ~IsPromiseObject(pr[p].attempts[1].v))
      => \/ /\ pr[p].mState = "Pending"
            /\ SettleQueued(p, pr[p].attempts[1].v, "Resolved")
         \/ /\ pr[p].mState = "Resolved"
            /\ pr[p].mResult = pr[p].attempts[1].v
            /\ ~SettleQueued(p, pr[p].attempts[1].v, "Resolved")

\* A Promise asked to resolve with an Error object is Resolved with it.
ResolvedWithObject ==
  \E p \in PromiseIds :
    /\ pr[p].attempts # <<>>
    /\ pr[p].attempts[1] = [task |-> "Resolve", v |-> ErrV, ignored |-> FALSE]
    /\ pr[p].mState = "Resolved" /\ pr[p].mResult = ErrV

\* Sequence a is the beginning of sequence b.
IsPrefix(a, b) == Len(a) <= Len(b) /\ SubSeq(b, 1, Len(a)) = a

ResolvedWith(p) ==
  {q \in PromiseIds :
     \E k \in DOMAIN pr[p].attempts :
       pr[p].attempts[k] = [task |-> "Resolve", v |-> PromiseV(q), ignored |-> FALSE]}

\* The Promises reached from those in S by at most n steps of ResolvedWith.
RECURSIVE Followed(_, _)
Followed(S, n) ==
  IF n = 0 THEN S
  ELSE Followed(S \cup UNION {ResolvedWith(q) : q \in S}, n - 1)

\* Promise p was resolved with itself, directly or through other Promises.
ResolvesToItself(p) == p \in Followed(ResolvedWith(p), Len(pr))

\* C23: a Promise resolved with a Promise that directly or indirectly
\* resolves to itself stays Pending with an undefined result, and none of
\* its callbacks is ever called.
SelfResolvedNeverSettles ==
  \A p \in PromiseIds :
    ResolvesToItself(p) =>
      /\ pr[p].mState = "Pending"
      /\ pr[p].mResult = Undef
      /\ \A i \in DOMAIN log : log[i].on # p

\* C24: a Pending Promise has an undefined result, and the result of a
\* Promise (that is not being torn down) changes only in a step that takes
\* its state out of Pending.
ResultWrittenOnlyOnSettling ==
  /\ [](\A p \in PromiseIds : pr[p].mState = "Pending" => pr[p].mResult = Undef)
  /\ [][\A p \in DOMAIN pr :
          (pr'[p].mResult # pr[p].mResult /\ pr'[p].life = "live")
            => pr[p].mState = "Pending" /\ pr'[p].mState # "Pending"]_vars

\* The places in the queues where a PromiseTask for Promise p waits.
DrainTasksQueued(p) ==
  UNION {{<<t, k>> : k \in {i \in DOMAIN queue[t] : queue[t][i] = PromiseTask(p)}}
         : t \in Contexts}

\* C25: at most one PromiseTask waits for a Promise, and mTaskPending is
\* true exactly while one does.  A then/catch call on a settled Promise
\* whose mTaskPending is false queues one PromiseTask for it and sets the
\* flag; on any other Promise it queues nothing.
DrainTasksCoalesced ==
  /\ [](\A p \in PromiseIds :
          /\ Cardinality(DrainTasksQueued(p)) <= 1
          /\ pr[p].mTaskPending <=> DrainTasksQueued(p) # {})
  /\ [][used'.then = used.then + 1 =>
          LET p == regs'[Len(regs')].on
          IN IF pr[p].mState # "Pending" /\ ~pr[p].mTaskPending
             THEN /\ pr'[p].mTaskPending
                  /\ \E t \in Contexts :
                       queue' = [queue EXCEPT ![t] = Append(@, PromiseTask(p))]
             ELSE /\ queue' = queue
                  /\ pr'[p].mTaskPending = pr[p].mTaskPending]_vars

\* A settled Promise was given callbacks twice before its PromiseTask ran:
\* both wait in its list and one PromiseTask is queued.
TwoRegistrationsOneDrainTask ==
  \E p \in PromiseIds :
    /\ pr[p].mState = "Resolved" /\ pr[p].mTaskPending
    /\ Len(pr[p].mResolveCallbacks) = 2
    /\ \A i \in DOMAIN pr[p].mResolveCallbacks :
         regs[pr[p].mResolveCallbacks[i].reg].state = "Resolved"
    /\ Cardinality(DrainTasksQueued(p)) = 1

\* Registration r was made on a settled Promise from inside a callback that
\* a RunTask was running.
RegisteredWhileRunning(r) == regs[r].depth >= 1 /\ regs[r].state # "Pending"

\* The callbacks of registration r are in the lists of the Promise they
\* were appended to.
InLists(r) ==
  \E cb \in SeqRange(pr[regs[r].on].mResolveCallbacks)
             \cup SeqRange(pr[regs[r].on].mRejectCallbacks) : cb.reg = r

\* C26: a callback registered on a Promise from inside a callback that
\* RunTask is running is not called by a RunTask that had begun by then.
\* Until it is called it stays in the Promise's list, which holds only
\* callbacks not yet called, and a PromiseTask for the Promise waits with
\* mTaskPending set; it is called once, by a task run later.
ReentrantRegistrationDeferred ==
  \A r \in DOMAIN regs :
    (RegisteredWhileRunning(r) /\ Live(regs[r].on)) =>
      /\ \A i \in Invocations(r) : log[i].drain > regs[r].epoch /\ log[i].depth = 1
      /\ Cardinality(Invocations(r)) <= 1
      /\ Invocations(r) = {} =>
           /\ InLists(r)
           /\ pr[regs[r].on].mTaskPending
           /\ DrainTasksQueued(regs[r].on) # {}
           /\ \A r2 \in DOMAIN regs :
                (regs[r2].on = regs[r].on /\ InLists(r2)) => Invocations(r2) = {}
      /\ Invocations(r) # {} => ~InLists(r)

\* A callback registered from inside a running callback has been called by
\* a later PromiseTask, after every callback of the RunTask it was
\* registered in.
ReentrantCallbackRan ==
  \E r \in DOMAIN regs :
    /\ RegisteredWhileRunning(r) /\ Quiescent
    /\ \E i \in Invocations(r) :
         \E j \in DOMAIN log :
           /\ j < i /\ log[j].on = regs[r].on
           /\ regs[log[j].reg].fn[1] = "rethen"
           /\ log[j].drain <= regs[r].epoch /\ log[i].drain > regs[r].epoch

\* C27: MOZ_ASSERT(mState != Pending) at the top of RunTask has never
\* failed: every RunTask so far, from a PromiseTask, from a
\* PromiseResolverTask or from a callback settling the next Promise, found
\* its Promise settled.
RunTaskAssertionHolds == ~assertFailed

\* RunTask has run in all three ways: a PromiseResolverTask drained a
\* Promise, one of its callbacks settled the next Promise and drained it in
\* the same task, and a PromiseTask drained a callback registered after
\* settlement.
RunTaskRanAllWays ==
  /\ \E i \in DOMAIN log : log[i].depth = 1 /\ regs[log[i].reg].state = "Pending"
  /\ \E i \in DOMAIN log : log[i].depth = 2
  /\ \E i \in DOMAIN log : log[i].depth = 1 /\ regs[log[i].reg].state # "Pending"

\* Attempt k on Promise p is a request that took effect to resolve p with
\* another Promise.
ChainedAt(p, k) ==
  /\ ~pr[p].attempts[k].ignored /\ pr[p].attempts[k].task = "Resolve"
  /\ IsPromiseObject(pr[p].attempts[k].v) /\ pr[p].attempts[k].v.n # p

\* C28: once Promise P has been resolved with another Promise Q,
\* P.mResolvePending is set, every later public request on P is ignored,
\* P is Pending as long as Q is, and when P is settled it has the state and
\* result of Q.
ChainedResolveLocksOut ==
  \A p \in PromiseIds : \A k \in DOMAIN pr[p].attempts :
    ChainedAt(p, k) =>
      /\ pr[p].mResolvePending
      /\ \A j \in DOMAIN pr[p].attempts : j > k => pr[p].attempts[j].ignored
      /\ (Live(p) /\ Live(pr[p].attempts[k].v.n)) =>
           /\ pr[pr[p].attempts[k].v.n].mState = "Pending" => pr[p].mState = "Pending"
           /\ pr[p].mState # "Pending" =>
                /\ pr[p].mState = pr[pr[p].attempts[k].v.n].mState
                /\ pr[p].mResult = pr[pr[p].attempts[k].v.n].mResult

\* C29: a then call given no reject function leaves mHadRejectCallback of
\* the Promise as it was; a Promise Rejected with an Error whose
\* registrations all came without a reject function has reported the
\* rejection once it is destroyed; and mHadRejectCallback, once set, stays
\* set.
OnlyRejectFunctionObserves ==
  /\ [][used'.then = used.then + 1 =>
          (regs'[Len(regs')].fn[2] = "none" =>
             pr'[regs'[Len(regs')].on].mHadRejectCallback
               = pr[regs'[Len(regs')].on].mHadRejectCallback)]_vars
  /\ [](\A p \in PromiseIds :
          (/\ pr[p].life = "dead" /\ pr[p].mState = "Rejected"
           /\ pr[p].torn # <<>> /\ ErrorFromException(pr[p].torn[1])
           /\ \A r \in DOMAIN regs : regs[r].on = p => regs[r].fn[2] = "none")
            => pr[p].reports = 1)
  /\ [][\A p \in DOMAIN pr :
          pr[p].mHadRejectCallback => pr'[p].mHadRejectCallback]_vars

\* The value Promise q was Rejected with: its result, or for a Promise torn
\* down the result it had then.
RejectedWith(q) == IF pr[q].torn # <<>> THEN pr[q].torn[1] ELSE pr[q].mResult

\* C30: a Promise Q that another Promise P was resolved with has
\* mHadRejectCallback set and never reports a rejection; when Q is Rejected
\* with an Error and every task has run, the adapter that P registered on Q
\* has been called with that Error; and a destroyed P that was
\* Rejected with an Error and never got a reject callback has reported it.
ChainedRejectionReportedByTarget ==
  \A p \in PromiseIds : \A k \in DOMAIN pr[p].attempts :
    ChainedAt(p, k) =>
      LET q == pr[p].attempts[k].v.n
      IN /\ pr[q].mHadRejectCallback
         /\ pr[q].reports = 0
         /\ (/\ Quiescent /\ pr[q].mState = "Rejected"
             /\ ErrorFromException(RejectedWith(q))) =>
              \E i \in DOMAIN log :
                /\ log[i].on = q /\ regs[log[i].reg].next = p
                /\ log[i].disp = "Reject" /\ log[i].v = RejectedWith(q)
         /\ (/\ pr[p].life = "dead" /\ pr[p].mState = "Rejected"
             /\ ErrorFromException(RejectedWith(p))
             /\ ~pr[p].mHadRejectCallback) => pr[p].reports = 1

\* Registration reg is the pair of adapters that ResolveInternal appended
\* to Promise reg.on for the Promise reg.next that was resolved with it, s
\* being the Promises.
AdapterOf(s, reg) ==
  \E k \in DOMAIN s[reg.next].attempts :
    /\ ~s[reg.next].attempts[k].ignored
    /\ s[reg.next].attempts[k].task = "Resolve"
    /\ s[reg.next].attempts[k].v = PromiseV(reg.on)

Reportable(p) ==
  /\ pr[p].mState = "Rejected" /\ ~pr[p].mHadRejectCallback
  /\ ErrorFromException(pr[p].mResult)

\* C32: a teardown step of a Promise, unlink or destructor, decides on the
\* report by the result the Promise had when the step began and leaves the
\* result undefined; the destructor that follows an unlink finds the result
\* undefined and dispatches no AsyncErrorReporter.
ReportCheckedBeforeResultCleared ==
  [][\A p \in DOMAIN pr :
       Len(pr'[p].torn) > Len(pr[p].torn)
         => /\ pr'[p].reports = pr[p].reports + (IF Reportable(p) THEN 1 ELSE 0)
            /\ pr'[p].mResult = Undef
            /\ Len(pr'[p].torn) = 2
                 => /\ pr[p].life = "unlinked" /\ pr'[p].life = "dead"
                    /\ pr'[p].torn[2] = Undef
                    /\ pr'[p].reports = pr[p].reports]_vars

\* Both teardown paths reported by the result they found: one Promise was
\* unlinked with an error, reported then, and destroyed with an undefined
\* result; the report of another, or of that one, is still queued.
BothTeardownPathsTaken ==
  \E p \in DOMAIN pr :
    /\ pr[p].torn = <<ErrV, Undef>> /\ pr[p].reports = 1
    /\ \E k \in DOMAIN queue["main"] :
         queue["main"][k] = AsyncErrorReporter(p, ErrV)

\* C33: a Promise torn down while Pending or Resolved, or while Rejected
\* with an undefined result or with a value JS_ErrorFromException knows no
\* report for, has no AsyncErrorReporter dispatched for it, reject callback
\* or not.
NothingToReportNotReported ==
  [][\A p \in DOMAIN pr :
       (Len(pr'[p].torn) > Len(pr[p].torn)
          /\ (pr[p].mState \in {"Pending", "Resolved"}
               \/ isUndefined(pr[p].mResult)
               \/ ~ErrorFromException(pr[p].mResult)))
         => (pr'[p].reports = pr[p].reports
             /\ \A k \in DOMAIN queue'["main"] :
                  (queue'["main"][k].kind = "AsyncErrorReporter"
                   /\ queue'["main"][k].p = p) => pr[p].reports > 0)]_vars

\* A Promise Rejected with the number 1 and never given a reject callback
\* was destroyed without a report.
NonErrorRejectionDestroyed ==
  \E p \in DOMAIN pr :
    /\ pr[p].life = "dead" /\ pr[p].mState = "Rejected"
    /\ pr[p].torn = <<IntV(1)>> /\ ~pr[p].mHadRejectCallback
    /\ pr[p].reports = 0

\* A runnable that settles its Promise when it runs: a PromiseResolverTask
\* whose value ResolveInternal does not chain on.
NonChainable(task) ==
  /\ task.kind = "PromiseResolverTask"
  /\ ~(task.st = "Resolved" /\ IsPromiseObject(task.v))

\* The Promises other than a whose settlement is queued on thread t behind
\* the runnable at the head of the queue.
RequestedAfterHead(t, a) ==
  {queue[t][j].p : j \in {k \in DOMAIN queue[t] : k > 1 /\ NonChainable(queue[t][k])}}
    \ {a}

\* C34: settlements that are not chainable, requested for A and then for B
\* on one thread, take effect in that order: while A's PromiseResolverTask
\* is queued ahead of B's, B is Pending; and the step that runs A's task
\* gives A its state and result, calls the callbacks A has for that state,
\* and changes neither the state nor the result of B.
SettledInRequestOrder ==
  /\ [](\A t \in Contexts : \A i \in DOMAIN queue[t] : \A j \in DOMAIN queue[t] :
          (i < j /\ NonChainable(queue[t][i]) /\ NonChainable(queue[t][j])
             /\ queue[t][i].p # queue[t][j].p)
            => pr[queue[t][j].p].mState = "Pending")
  /\ [][\A t \in Contexts :
          (queue[t] # <<>> /\ RunNext(t) /\ NonChainable(Head(queue[t])))
            => LET a == Head(queue[t]) IN
               /\ pr'[a.p].mState = a.st /\ pr'[a.p].mResult = a.v
               /\ \A cb \in SeqRange(IF a.st = "Resolved"
                                      THEN pr[a.p].mResolveCallbacks
                                      ELSE pr[a.p].mRejectCallbacks) :
                    \E i \in DOMAIN log' : i > Len(log) /\ log'[i].reg = cb.reg
               /\ \A b \in RequestedAfterHead(t, a.p) :
                    /\ pr'[b].mState = pr[b].mState
                    /\ pr'[b].mResult = pr[b].mResult]_vars

\* C35: the result of a Resolved Promise is never a Promise: resolving with
\* a Promise chains on it, so a Promise is the result only of a Rejected
\* Promise.
FulfilledResultIsNoPromise ==
  \A p \in DOMAIN pr :
    /\ pr[p].mState = "Resolved" => ~IsPromiseObject(pr[p].mResult)
    /\ IsPromiseObject(pr[p].mResult) => pr[p].mState = "Rejected"

\* One Promise was resolved with a Promise and is Resolved with the number
\* that Promise was resolved with; another is Rejected with a Promise.
ResolvedThroughPromise ==
  /\ \E p \in DOMAIN pr : \E k \in DOMAIN pr[p].attempts :
       /\ ChainedAt(p, k)
       /\ pr[p].mState = "Resolved" /\ pr[p].mResult = IntV(1)
  /\ \E q \in DOMAIN pr :
       pr[q].mState = "Rejected" /\ IsPromiseObject(pr[q].mResult)

\* C36: a callback that was called is the one for the state its Promise
\* has, so the reject callback of a Resolved Promise and the resolve
\* callback of a Rejected Promise are never called, and of the pair of
\* callbacks one registration appended at most one is called, at most once.
DiscardedCallbackNeverInvoked ==
  /\ \A i \in DOMAIN log : StateOf(log[i].disp) = pr[log[i].on].mState
  /\ \A r \in DOMAIN regs : Cardinality(Invocations(r)) <= 1

\* C37: a Promise with mTaskPending set is not Pending, and a Promise that
\* is not Pending has mResolvePending set: no PromiseTask is queued for a
\* Pending Promise, and no Promise settles without ResolveInternal or
\* RejectInternal having recorded the attempt.
FlagsFollowState ==
  \A p \in DOMAIN pr :
    /\ pr[p].mTaskPending => pr[p].mState # "Pending"
    /\ pr[p].mState # "Pending" => pr[p].mResolvePending
    /\ pr[p].mState = "Pending" => DrainTasksQueued(p) = {}

\* A settled Promise waits for its PromiseTask, and a Promise returned by
\* then was settled by its parent's callback, with no call of a resolve or
\* reject function on it.
DrainQueuedAndChildSettled ==
  /\ \E p \in DOMAIN pr :
       pr[p].mTaskPending /\ pr[p].mState # "Pending" /\ pr[p].mResolvePending
  /\ \E c \in DOMAIN pr :
       /\ pr[c].made = "Then" /\ pr[c].attempts = <<>>
       /\ pr[c].mState # "Pending" /\ pr[c].mResolvePending

\* C38: between tasks, a settled Promise that has a callback in either of
\* its lists has mTaskPending set and a PromiseTask for it waiting in the
\* queue of the thread it was made on.
WaitingCallbacksHaveDrainTask ==
  \A p \in DOMAIN pr :
    (pr[p].mState # "Pending"
       /\ (pr[p].mResolveCallbacks # <<>> \/ pr[p].mRejectCallbacks # <<>>))
      => /\ pr[p].mTaskPending
         /\ \E k \in DOMAIN queue[pr[p].owner] :
              queue[pr[p].owner][k] = PromiseTask(p)

\* Registration r was appended by this step, outside any RunTask, to a
\* Promise that was Pending: a then or catch call, or ResolveInternal given
\* a Pending Promise.
AppendedToPending(r) ==
  /\ r \in DOMAIN regs' /\ r > Len(regs)
  /\ regs'[r].state = "Pending" /\ regs'[r].depth = 0

\* C39: a step that appends callbacks to a Pending Promise calls no
\* callback and dispatches no runnable; it leaves the Promise's mState,
\* mResult, mResolvePending and mTaskPending as they were and only
\* lengthens its two lists, setting mHadRejectCallback; this is so also
\* while a PromiseResolverTask for the Promise is waiting.
RegistrationOnPendingOnlyAppends ==
  [][\A r \in DOMAIN regs' :
       AppendedToPending(r)
         => LET q == regs'[r].on IN
            /\ log' = log
            /\ queue' = queue
            /\ pr'[q].mState = "Pending" /\ pr'[q].mResult = pr[q].mResult
            /\ pr'[q].mResolvePending = (pr[q].mResolvePending \/ regs'[r].next = q)
            /\ pr'[q].mTaskPending = pr[q].mTaskPending
            /\ IsPrefix(pr[q].mResolveCallbacks, pr'[q].mResolveCallbacks)
            /\ IsPrefix(pr[q].mRejectCallbacks, pr'[q].mRejectCallbacks)
            /\ Len(pr'[q].mResolveCallbacks) = Len(pr[q].mResolveCallbacks) + 1
            /\ Len(pr'[q].mRejectCallbacks) = Len(pr[q].mRejectCallbacks) + 1
            /\ pr'[q].mHadRejectCallback]_vars

\* then was called on a Pending Promise whose PromiseResolverTask is
\* waiting: the Promise is still Pending, has the callbacks, and the task
\* is still the only runnable.
RegisteredWhileSettleQueued ==
  \E r \in DOMAIN regs :
    /\ regs[r].state = "Pending" /\ regs[r].fn = <<"double", "none">>
    /\ pr[regs[r].on].mState = "Pending"
    /\ Len(pr[regs[r].on].mResolveCallbacks) = 1
    /\ ~pr[regs[r].on].mTaskPending
    /\ queue["main"] = <<PromiseResolverTask(regs[r].on, IntV(1), "Resolved")>>
    /\ log = <<>>

====
